---- MODULE Spec2Model ----
(***************************************************************************)
(* Model of misteragent/react.py: the ReActAgent reason-act-observe loop   *)
(* (run, _reason, _act, _add_step, _format_history).                       *)
(*                                                                         *)
(* A Python str is modelled as a sequence of tokens; the string is the     *)
(* concatenation of its tokens.  The tokens are the two markers, the       *)
(* newline (the only whitespace), a few Python statements, and the fixed   *)
(* texts the program produces.  No marker can be formed by concatenating   *)
(* other tokens, so substring tests on markers are tests on tokens.        *)
(***************************************************************************)
EXTENDS Integers, Sequences, FiniteSets, TLC

\* ---------------------------------------------------------------- bounds
MaxSteps == 3
MaxRespLen == 3
MaxCodeLines == 2
MaxCalls == 3

\* ---------------------------------------------------------------- tokens
ACTION_MARK == "ACTION:"
FINAL_MARK == "FINAL ANSWER:"
NL == "\n"

S_ASSIGN == "x = 1"
S_INCR == "x += 1"
S_PRINTX == "print(x)"
S_PRINTHI == "print('hi')"
S_PRINTNONE == "print('', end='')"
S_FUNCREAD == "print((lambda: x)())"
S_RAISE == "raise ValueError('boom')"
S_RAISEBASE == "raise BaseException('boom')"
S_UNCLOSED == "x = ("
S_RETURN == "return 0"
\* prose, as a model writes it in a thought
T_THINK == "I think"

Agents == {"a1", "a2"}

\* Statements a directly called fragment is built from, one per line.
Stmts ==
  {S_ASSIGN, S_INCR, S_PRINTX, S_FUNCREAD, S_PRINTHI, S_PRINTNONE, S_RAISE,
   S_RAISEBASE, S_UNCLOSED, S_RETURN}

\* Tokens the model collaborator builds its completions from.
RespTokens == {ACTION_MARK, FINAL_MARK, NL, S_ASSIGN, S_RAISEBASE}

\* The completions of a scripted model collaborator: a thought alone, a
\* thought and a fragment (one that runs, prints, fails or does not parse),
\* a final answer, and the two markers in either order or repeated.
Completions ==
  {<<>>,
   <<T_THINK>>,
   <<NL, T_THINK, NL, ACTION_MARK, NL, S_ASSIGN, NL>>,
   <<ACTION_MARK, S_INCR, NL, S_PRINTX>>,
   <<T_THINK, ACTION_MARK, S_UNCLOSED>>,
   <<ACTION_MARK, S_RAISEBASE>>,
   <<FINAL_MARK, T_THINK>>,
   <<T_THINK, FINAL_MARK, ACTION_MARK, S_ASSIGN>>,
   <<ACTION_MARK, FINAL_MARK>>,
   <<T_THINK, ACTION_MARK, S_ASSIGN, ACTION_MARK, FINAL_MARK>>}

RECURSIVE SeqsUpTo(_, _)
SeqsUpTo(S, n) ==
  IF n = 0 THEN {<<>>}
  ELSE LET shorter == SeqsUpTo(S, n - 1)
       IN shorter \cup {Append(s, t) : s \in {u \in shorter : Len(u) = n - 1}, t \in S}

Responses == SeqsUpTo(RespTokens, MaxRespLen)

RECURSIVE JoinLines(_)
JoinLines(lines) ==
  IF Len(lines) = 0 THEN <<>>
  ELSE IF Len(lines) = 1 THEN <<lines[1]>>
  ELSE <<lines[1], NL>> \o JoinLines(Tail(lines))

Codes == {JoinLines(l) : l \in SeqsUpTo(Stmts, MaxCodeLines)}

\* ---------------------------------------------------------------- str
\* `t in s` for a marker t
Contains(s, t) == \E k \in DOMAIN s : s[k] = t

\* s.find(t) + 1, 0 when absent
IndexOf(s, t) ==
  IF Contains(s, t) THEN CHOOSE k \in DOMAIN s : s[k] = t /\ \A j \in 1..(k - 1) : s[j] # t
  ELSE 0

\* s.split(sep): the pieces between ALL occurrences of sep, in order
RECURSIVE Split(_, _)
Split(s, sep) ==
  IF ~Contains(s, sep) THEN <<s>>
  ELSE LET k == IndexOf(s, sep)
       IN <<SubSeq(s, 1, k - 1)>> \o Split(SubSeq(s, k + 1, Len(s)), sep)

\* s.strip(): drop leading and trailing whitespace
RECURSIVE LStrip(_)
LStrip(s) == IF Len(s) > 0 /\ s[1] = NL THEN LStrip(Tail(s)) ELSE s

RECURSIVE RStrip(_)
RStrip(s) ==
  IF Len(s) > 0 /\ s[Len(s)] = NL THEN RStrip(SubSeq(s, 1, Len(s) - 1)) ELSE s

Strip(s) == RStrip(LStrip(s))

\* str(n) for n >= 0, one token per digit
Digit(d) == <<"0", "1", "2", "3", "4", "5", "6", "7", "8", "9">>[d + 1]

RECURSIVE Str(_)
Str(n) == IF n < 10 THEN <<Digit(n)>> ELSE Append(Str(n \div 10), Digit(n % 10))

\* ---------------------------------------------------------------- StepType
THOUGHT == "THOUGHT"
ACT_STEP == "ACTION"
OBSERVATION == "OBSERVATION"
FINAL_ANSWER == "FINAL_ANSWER"

ReActStep(type, content) == [type |-> type, content |-> content]

\* ---------------------------------------------------------------- fixed texts
Prompt == <<"Task: {task} ... FINAL ANSWER: when you have solved the task">>
NoOutputMsg == <<"Code executed successfully with no output">>
ErrorPrefix == "Error executing code: "
MaxStepsMsg == <<"Maximum steps reached without finding solution">>
\* str(e) of the exceptions; M_SYNTAX stands for whatever the parser reports
M_SYNTAX == "invalid syntax (<unknown>, line 1)"
M_RETURN == "'return' outside function (<string>, line 1)"
M_NAME_X == "name 'x' is not defined"
M_BOOM == "boom"
M_LLM == "model call failed"

\* Python None, distinct from every str
None == <<"<None>">>

\* ---------------------------------------------------------------- exceptions
NoExc == [cls |-> "none", msg |-> <<>>]
Raised(cls, msg) == [cls |-> cls, msg |-> <<msg>>]

\* issubclass(cls, Exception): BaseException itself (like SystemExit,
\* KeyboardInterrupt, GeneratorExit) is not an Exception
IsException(cls) == cls \in {"SyntaxError", "NameError", "ValueError", "LLMError"}

\* ---------------------------------------------------------------- dict
EmptyDict == [v \in {} |-> 0]
Store(d, k, val) == [v \in DOMAIN d \cup {k} |-> IF v = k THEN val ELSE d[v]]

\* ---------------------------------------------------------------- Python
\* The grammar of the fragments: one statement token per line.  Two tokens
\* on one line, an unclosed bracket, prose and the final-answer marker do not
\* parse.
\* (The code handed to _act never holds ACTION_MARK: it is cut from a split
\* on that marker.)
ParseError(code) ==
  \/ \E k \in DOMAIN code : code[k] \in {S_UNCLOSED, T_THINK, FINAL_MARK, ACTION_MARK}
  \/ \E k \in 1..(Len(code) - 1) : code[k] # NL /\ code[k + 1] # NL

\* ast.parse(code): the exception it raises, NoExc when it returns
AstParse(code) == IF ParseError(code) THEN Raised("SyntaxError", M_SYNTAX) ELSE NoExc

\* What parses but does not compile: a return outside a function.
CompileError(code) == Contains(code, S_RETURN)

NonBlank(t) == t # NL

\* The statements run one after the other against the locals mapping `vars`;
\* `out` is what they have written to sys.stdout, `wr` the names they bound.
\* The globals of the fragment are the fresh {} of line 110: a name read in a
\* function body (S_FUNCREAD) is looked up there and in the builtins, never
\* in `vars`.
RECURSIVE RunStmts(_, _, _, _)
RunStmts(stmts, vars, out, wr) ==
  IF Len(stmts) = 0 THEN [vars |-> vars, out |-> out, wr |-> wr, exc |-> NoExc]
  ELSE LET st == Head(stmts)
           rest == Tail(stmts)
           fail(e) == [vars |-> vars, out |-> out, wr |-> wr, exc |-> e]
       IN CASE st = S_ASSIGN -> RunStmts(rest, Store(vars, "x", 1), out, wr \cup {"x"})
            [] st = S_INCR ->
                 IF "x" \in DOMAIN vars
                 THEN RunStmts(rest, Store(vars, "x", vars["x"] + 1), out, wr \cup {"x"})
                 ELSE fail(Raised("NameError", M_NAME_X))
            [] st = S_PRINTX ->
                 IF "x" \in DOMAIN vars
                 THEN RunStmts(rest, vars, out \o Str(vars["x"]) \o <<NL>>, wr)
                 ELSE fail(Raised("NameError", M_NAME_X))
            [] st = S_FUNCREAD -> fail(Raised("NameError", M_NAME_X))
            [] st = S_PRINTHI -> RunStmts(rest, vars, out \o <<"hi", NL>>, wr)
            [] st = S_PRINTNONE -> RunStmts(rest, vars, out, wr)
            [] st = S_RAISE -> fail(Raised("ValueError", M_BOOM))
            [] st = S_RAISEBASE -> fail(Raised("BaseException", M_BOOM))
            [] OTHER -> fail(Raised("SyntaxError", M_SYNTAX))

\* exec(code, {}, locals): the whole fragment is compiled before any of it runs
ExecCode(code, locals) ==
  IF ParseError(code)
  THEN [vars |-> locals, out |-> <<>>, wr |-> {}, exc |-> Raised("SyntaxError", M_SYNTAX)]
  ELSE IF CompileError(code)
  THEN [vars |-> locals, out |-> <<>>, wr |-> {}, exc |-> Raised("SyntaxError", M_RETURN)]
  ELSE RunStmts(SelectSeq(code, NonBlank), locals, <<>>, {})

\* ---------------------------------------------------------------- _format_history
\* the blocks without their closing newline
FormatStep_NoNewline(step) == <<step.type, ":", NL>> \o step.content

FormatStep(step) == <<step.type, ":", NL>> \o step.content \o <<NL>>

RECURSIVE FormatHistory(_)
FormatHistory(h) ==
  IF Len(h) = 0 THEN <<>>
  ELSE IF Len(h) = 1 THEN FormatStep(h[1])
  ELSE FormatStep(h[1]) \o <<NL>> \o FormatHistory(Tail(h))

\* run, line 143
CurrentContext(h) == Prompt \o <<NL, NL>> \o FormatHistory(h)

\* ---------------------------------------------------------------- _reason
\* the response is not cut at the marker: the thought is the whole response
ReasonSplit_WholeThought(response) ==
  IF Contains(response, ACTION_MARK)
  THEN [thought |-> Strip(response), code |-> Strip(Split(response, ACTION_MARK)[2])]
  ELSE [thought |-> response, code |-> None]

\* lines 83-88
ReasonSplit(response) ==
  IF Contains(response, ACTION_MARK)
  THEN [thought |-> Strip(Split(response, ACTION_MARK)[1]),
        code |-> Strip(Split(response, ACTION_MARK)[2])]
  ELSE [thought |-> response, code |-> None]

\* the test made against the StepType value instead of the marker text
IsFinalAnswer_WrongMarker(thought) == Contains(thought, FINAL_ANSWER)

\* run, line 148
IsFinalAnswer(thought) == Contains(thought, FINAL_MARK)

\* ---------------------------------------------------------------- _act
\* the captured text is trimmed before it is returned
ActResult_Stripped(output) ==
  IF Strip(output) # <<>> THEN Strip(output) ELSE NoOutputMsg

\* line 112
ActResult(output) == IF output # <<>> THEN output ELSE NoOutputMsg

\* only the runtime errors are handled
Caught_RuntimeOnly(e) == e.cls \in {"NameError", "ValueError"}

\* line 114: except Exception
Caught(e) == IsException(e.cls)

\* line 115
ErrorString(e) == <<ErrorPrefix>> \o e.msg

\* the capture buffer is left installed
FinallyStdout_Leak(old) == "BUF"

\* line 118
FinallyStdout(old) == old

\* ---------------------------------------------------------------- state
VARIABLES
  max_steps,          \* self.max_steps, per agent
  history,            \* self.history, per agent
  local_vars,         \* self.local_vars, per agent
  stdout,             \* sys.stdout: "ORIG" or the capture buffer "BUF"
  pc,                 \* position of the one thread of control
  self,               \* the agent whose method is running
  caller,             \* who called _act: "run" or "direct"
  i,                  \* run: iterations completed
  context,            \* run: current_context
  response,           \* _reason: response
  thought,            \* run: thought
  code,               \* run: code (None when absent)
  result,             \* run: the returned str
  raised,             \* the exception that left run or _act, NoExc if none
  act_code,           \* _act: code
  old_stdout,         \* _act: old_stdout
  redirected_output,  \* _act: redirected_output.getvalue()
  exc,                \* _act: the exception validation or execution raised
  ret,                \* _act: the returned str
  calls,              \* number of get_completion calls of the run
  llm_failures,       \* number of get_completion calls that raised
  acts,               \* number of _act calls of the run
  ncalls,             \* number of direct _act calls made
  scope0,             \* local_vars of self when _act was entered
  written,            \* what the fragment wrote to standard output
  wrote,              \* per agent, the names earlier fragments bound
  final_emitted,      \* some completion of the run held the final-answer marker
  runs                \* number of run calls made

vars ==
  <<max_steps, history, local_vars, stdout, pc, self, caller, i, context,
    response, thought, code, result, raised, act_code, old_stdout,
    redirected_output, exc, ret, calls, llm_failures, acts, ncalls, scope0,
    written, wrote, final_emitted, runs>>

agentVars == <<max_steps, history, local_vars>>
runVars ==
  <<i, context, response, thought, code, result, calls, llm_failures, acts,
    final_emitted>>
actVars == <<act_code, old_stdout, redirected_output, exc, ret, scope0, written, wrote>>

\* __init__ (lines 45-48) of every agent; nothing is running
Init ==
  /\ max_steps \in [Agents -> 0..MaxSteps]
  /\ history = [a \in Agents |-> <<>>]
  /\ local_vars = [a \in Agents |-> EmptyDict]
  /\ stdout = "ORIG"
  /\ pc = "idle"
  /\ self = "a1"
  /\ caller = "none"
  /\ i = 0
  /\ context = <<>>
  /\ response = <<>>
  /\ thought = <<>>
  /\ code = None
  /\ result = <<>>
  /\ raised = NoExc
  /\ act_code = <<>>
  /\ old_stdout = "ORIG"
  /\ redirected_output = <<>>
  /\ exc = NoExc
  /\ ret = <<>>
  /\ calls = 0
  /\ llm_failures = 0
  /\ acts = 0
  /\ ncalls = 0
  /\ scope0 = EmptyDict
  /\ written = <<>>
  /\ wrote = [a \in Agents |-> {}]
  /\ final_emitted = FALSE
  /\ runs = 0

\* the step is put at the head of the history
AddStep_Front(h, type, content) == <<ReActStep(type, content)>> \o h

\* _add_step, line 58
AddStep(h, type, content) == Append(h, ReActStep(type, content))

\* ---------------------------------------------------------------- run
\* run is called on agent a (lines 120-140)
Run ==
  /\ pc = "idle"
  /\ \E a \in Agents : self' = a
  /\ caller' = "run"
  /\ pc' = "loop"
  /\ i' = 0
  /\ calls' = 0
  /\ llm_failures' = 0
  /\ acts' = 0
  /\ final_emitted' = FALSE
  /\ runs' = runs + 1
  /\ UNCHANGED <<agentVars, stdout, context, response, thought, code, result,
                 raised, actVars, ncalls>>

\* lines 142-146: one more iteration; the model call returns a completion
\* of R, which _reason splits
ReasonWith(R) ==
  /\ pc = "loop"
  /\ i < max_steps[self]
  /\ context' = CurrentContext(history[self])
  /\ \E r \in R :
       /\ response' = r
       /\ thought' = ReasonSplit(r).thought
       /\ code' = ReasonSplit(r).code
       /\ final_emitted' = (final_emitted \/ Contains(r, FINAL_MARK))
  /\ calls' = calls + 1
  /\ pc' = "decide"
  /\ UNCHANGED <<agentVars, stdout, self, caller, i, result, raised, llm_failures,
                 acts, actVars, ncalls, runs>>

\* the iteration with the scripted model collaborator
Reason == ReasonWith(Completions)

\* the iteration with a model collaborator that may answer anything
ReasonAny == ReasonWith(Responses)

\* the failure is swallowed and the model call is made again
ModelFails_Retry ==
  /\ pc = "loop"
  /\ i < max_steps[self]
  /\ context' = CurrentContext(history[self])
  /\ calls' = calls + 1
  /\ llm_failures' = llm_failures + 1
  /\ pc' = "loop"
  /\ UNCHANGED <<agentVars, stdout, self, caller, i, response, thought, code,
                 result, raised, acts, actVars, ncalls, runs, final_emitted>>

\* lines 142-146: the model call raises; neither _reason nor run catches it
ModelFails ==
  /\ pc = "loop"
  /\ i < max_steps[self]
  /\ context' = CurrentContext(history[self])
  /\ calls' = calls + 1
  /\ llm_failures' = llm_failures + 1
  /\ raised' = Raised("LLMError", M_LLM)
  /\ pc' = "raised"
  /\ UNCHANGED <<agentVars, stdout, self, caller, i, response, thought, code,
                 result, acts, actVars, ncalls, runs, final_emitted>>

\* the loop falls off its end, and run returns nothing
LoopExit_ReturnsNothing ==
  /\ pc = "loop"
  /\ i >= max_steps[self]
  /\ result' = <<>>
  /\ pc' = "returned"
  /\ UNCHANGED <<agentVars, stdout, self, caller, i, context, response, thought,
                 code, raised, calls, llm_failures, acts, actVars, ncalls, runs,
                 final_emitted>>

\* lines 142, 160: the range is exhausted
LoopExit ==
  /\ pc = "loop"
  /\ i >= max_steps[self]
  /\ result' = MaxStepsMsg
  /\ pc' = "returned"
  /\ UNCHANGED <<agentVars, stdout, self, caller, i, context, response, thought,
                 code, raised, calls, llm_failures, acts, actVars, ncalls, runs,
                 final_emitted>>

\* lines 148-155: final answer, or record the thought; the iteration ends
\* there when no code was generated
Decide ==
  /\ pc = "decide"
  /\ IF IsFinalAnswer(thought)
     THEN /\ history' = [history EXCEPT ![self] = AddStep(@, FINAL_ANSWER, thought)]
          /\ result' = thought
          /\ pc' = "returned"
          /\ i' = i
     ELSE /\ history' = [history EXCEPT ![self] = AddStep(@, THOUGHT, thought)]
          /\ result' = result
          /\ pc' = IF code # None THEN "record" ELSE "loop"
          /\ i' = IF code # None THEN i ELSE i + 1
  /\ UNCHANGED <<max_steps, local_vars, stdout, self, caller, context, response,
                 thought, code, raised, calls, llm_failures, acts, actVars,
                 ncalls, final_emitted, runs>>

\* the code is run without being recorded
RecordAction_NoStep ==
  /\ pc = "record"
  /\ history' = history
  /\ act_code' = code
  /\ acts' = acts + 1
  /\ pc' = "act_setup"
  /\ UNCHANGED <<max_steps, local_vars, stdout, self, caller, i, context, response,
                 thought, code, result, raised, calls, llm_failures, old_stdout,
                 redirected_output, exc, ret, scope0, written, wrote, ncalls,
                 final_emitted, runs>>

\* lines 156-157: the action is recorded and _act is called on the code
RecordAction ==
  /\ pc = "record"
  /\ history' = [history EXCEPT ![self] = AddStep(@, ACT_STEP, code)]
  /\ act_code' = code
  /\ acts' = acts + 1
  /\ pc' = "act_setup"
  /\ UNCHANGED <<max_steps, local_vars, stdout, self, caller, i, context, response,
                 thought, code, result, raised, calls, llm_failures, old_stdout,
                 redirected_output, exc, ret, scope0, written, wrote, ncalls,
                 final_emitted, runs>>

\* an iteration that acts does not use up the budget
Observe_NoCount ==
  /\ pc = "observe"
  /\ history' = [history EXCEPT ![self] = AddStep(@, OBSERVATION, ret)]
  /\ i' = i
  /\ pc' = "loop"
  /\ UNCHANGED <<max_steps, local_vars, stdout, self, caller, context, response,
                 thought, code, result, raised, calls, llm_failures, acts,
                 actVars, ncalls, runs, final_emitted>>

\* line 158: the observation is recorded and the iteration ends
Observe ==
  /\ pc = "observe"
  /\ history' = [history EXCEPT ![self] = AddStep(@, OBSERVATION, ret)]
  /\ i' = i + 1
  /\ pc' = "loop"
  /\ UNCHANGED <<max_steps, local_vars, stdout, self, caller, context, response,
                 thought, code, result, raised, calls, llm_failures, acts,
                 actVars, ncalls, runs, final_emitted>>

\* ---------------------------------------------------------------- _act
\* _act is called directly on agent a with a fragment
CallAct ==
  /\ pc = "idle"
  /\ ncalls < MaxCalls
  /\ \E a \in Agents : self' = a
  /\ \E c \in Codes : act_code' = c
  /\ caller' = "direct"
  /\ ncalls' = ncalls + 1
  /\ pc' = "act_setup"
  /\ UNCHANGED <<agentVars, stdout, runVars, raised, old_stdout, redirected_output,
                 exc, ret, scope0, written, wrote, runs>>

\* the direct caller has the str, or the exception, of the call: the frame of
\* _act and its locals are gone
ActReturn ==
  /\ pc \in {"act_done", "raised"}
  /\ caller = "direct"
  /\ pc' = "idle"
  /\ caller' = "none"
  /\ act_code' = <<>>
  /\ old_stdout' = "ORIG"
  /\ redirected_output' = <<>>
  /\ exc' = NoExc
  /\ ret' = <<>>
  /\ raised' = NoExc
  /\ scope0' = EmptyDict
  /\ written' = <<>>
  /\ UNCHANGED <<agentVars, stdout, self, runVars, wrote, ncalls, runs>>

\* every call of _act starts from an empty scope
ActSetup_FreshScope ==
  /\ pc = "act_setup"
  /\ old_stdout' = stdout
  /\ redirected_output' = <<>>
  /\ stdout' = "BUF"
  /\ exc' = NoExc
  /\ ret' = <<>>
  /\ written' = <<>>
  /\ scope0' = local_vars[self]
  /\ pc' = "act_parse"
  /\ local_vars' = [local_vars EXCEPT ![self] = EmptyDict]
  /\ UNCHANGED <<max_steps, history, self, caller, runVars, raised, act_code, wrote, ncalls, runs>>

\* lines 101-103: sys.stdout is swapped for a fresh StringIO
ActSetup ==
  /\ pc = "act_setup"
  /\ old_stdout' = stdout
  /\ redirected_output' = <<>>
  /\ stdout' = "BUF"
  /\ exc' = NoExc
  /\ ret' = <<>>
  /\ written' = <<>>
  /\ scope0' = local_vars[self]
  /\ pc' = "act_parse"
  /\ UNCHANGED <<agentVars, self, caller, runVars, raised, act_code, wrote, ncalls, runs>>

\* line 107: ast.parse(code)
ActParse ==
  /\ pc = "act_parse"
  /\ exc' = AstParse(act_code)
  /\ pc' = IF AstParse(act_code) = NoExc THEN "act_exec" ELSE "act_except"
  /\ UNCHANGED <<agentVars, stdout, self, caller, runVars, raised, act_code,
                 old_stdout, redirected_output, ret, scope0, written, wrote, ncalls, runs>>

\* a fragment that fails leaves the scope as it found it
ActExec_Rollback ==
  /\ pc = "act_exec"
  /\ LET r == ExecCode(act_code, local_vars[self])
         captured == IF stdout = "BUF" THEN redirected_output \o r.out
                     ELSE redirected_output
     IN /\ local_vars' = IF r.exc = NoExc THEN [local_vars EXCEPT ![self] = r.vars]
                       ELSE local_vars
        /\ wrote' = [wrote EXCEPT ![self] = @ \cup r.wr]
        /\ written' = r.out
        /\ redirected_output' = captured
        /\ exc' = r.exc
        /\ IF r.exc = NoExc
           THEN ret' = ActResult(captured) /\ pc' = "act_finally"
           ELSE ret' = ret /\ pc' = "act_except"
  /\ UNCHANGED <<max_steps, history, stdout, self, caller, runVars, raised,
                 act_code, old_stdout, scope0, ncalls, runs>>

\* lines 110-112: exec(code, {}, self.local_vars), then the captured text
ActExec ==
  /\ pc = "act_exec"
  /\ LET r == ExecCode(act_code, local_vars[self])
         captured == IF stdout = "BUF" THEN redirected_output \o r.out
                     ELSE redirected_output
     IN /\ local_vars' = [local_vars EXCEPT ![self] = r.vars]
        /\ wrote' = [wrote EXCEPT ![self] = @ \cup r.wr]
        /\ written' = r.out
        /\ redirected_output' = captured
        /\ exc' = r.exc
        /\ IF r.exc = NoExc
           THEN ret' = ActResult(captured) /\ pc' = "act_finally"
           ELSE ret' = ret /\ pc' = "act_except"
  /\ UNCHANGED <<max_steps, history, stdout, self, caller, runVars, raised,
                 act_code, old_stdout, scope0, ncalls, runs>>

\* lines 114-115: except Exception as e
ActExcept ==
  /\ pc = "act_except"
  /\ ret' = IF Caught(exc) THEN ErrorString(exc) ELSE ret
  /\ raised' = IF Caught(exc) THEN raised ELSE exc
  /\ pc' = "act_finally"
  /\ UNCHANGED <<agentVars, stdout, self, caller, runVars, act_code, old_stdout,
                 redirected_output, exc, scope0, written, wrote, ncalls, runs>>

\* lines 117-118: finally; then _act returns to its caller, or the exception
\* that was not caught leaves _act (and run, which has no handler)
ActFinally ==
  /\ pc = "act_finally"
  /\ stdout' = FinallyStdout(old_stdout)
  /\ pc' = IF raised # NoExc THEN "raised"
           ELSE IF caller = "run" THEN "observe" ELSE "act_done"
  /\ UNCHANGED <<agentVars, self, caller, runVars, raised, actVars, ncalls, runs>>

\* ---------------------------------------------------------------- run, again
MaxRuns == 3

\* run starts from an empty history and an empty scope
RunAgain_Reset ==
  /\ pc \in {"returned", "raised"}
  /\ caller = "run"
  /\ runs < MaxRuns
  /\ pc' = "loop"
  /\ i' = 0
  /\ calls' = 0
  /\ llm_failures' = 0
  /\ acts' = 0
  /\ final_emitted' = FALSE
  /\ raised' = NoExc
  /\ result' = <<>>
  /\ runs' = runs + 1
  /\ history' = [history EXCEPT ![self] = <<>>]
  /\ local_vars' = [local_vars EXCEPT ![self] = EmptyDict]
  /\ UNCHANGED <<max_steps, stdout, self, caller, context, response, thought, code,
                 actVars, ncalls>>

\* run is called once more on the agent whose run has ended (lines 120-140):
\* the locals of run start afresh, the attributes of the agent are not touched
RunAgain ==
  /\ pc \in {"returned", "raised"}
  /\ caller = "run"
  /\ runs < MaxRuns
  /\ pc' = "loop"
  /\ i' = 0
  /\ calls' = 0
  /\ llm_failures' = 0
  /\ acts' = 0
  /\ final_emitted' = FALSE
  /\ raised' = NoExc
  /\ result' = <<>>
  /\ runs' = runs + 1
  /\ UNCHANGED <<agentVars, stdout, self, caller, context, response, thought, code,
                 actVars, ncalls>>

\* ---------------------------------------------------------------- specifications
ActSteps == ActSetup \/ ActParse \/ ActExec \/ ActExcept \/ ActFinally

\* a run of the loop with the scripted model collaborator
Next ==
  Run \/ Reason \/ ModelFails \/ LoopExit \/ Decide \/ RecordAction \/ Observe \/ ActSteps

Spec == Init /\ [][Next]_vars

\* a run of one iteration (max_steps = 1) with any completion
InitOne == Init /\ max_steps = [a \in Agents |-> 1]

NextOne ==
  Run \/ ReasonAny \/ ModelFails \/ LoopExit \/ Decide \/ RecordAction \/ Observe
    \/ ActSteps

SpecOne == InitOne /\ [][NextOne]_vars

\* the executor called directly, on agents constructed with max_steps = 0
InitAct == Init /\ max_steps = [a \in Agents |-> 0]

NextAct == CallAct \/ ActSteps \/ ActReturn

SpecAct == InitAct /\ [][NextAct]_vars

\* the loop is one synchronous thread of control: a step that can be taken
\* is taken
SpecLive == Init /\ [][Next]_vars /\ WF_vars(Next)

\* runs of one iteration, called one after the other on the same agent
NextRerun == Next \/ RunAgain

SpecRerun == InitOne /\ [][NextRerun]_vars

\* ---------------------------------------------------------------- claims
\* the text before the first ACTION_MARK (all of it when there is none), and
\* the text after the first ACTION_MARK
PreAction(r) ==
  IF Contains(r, ACTION_MARK) THEN SubSeq(r, 1, IndexOf(r, ACTION_MARK) - 1) ELSE r

PostAction(r) == SubSeq(r, IndexOf(r, ACTION_MARK) + 1, Len(r))

Last(s) == s[Len(s)]

StepsOfType(h, type) == {k \in DOMAIN h : h[k].type = type}

\* a direct call of _act has ended: it returned or an exception left it
ActEnded == caller = "direct" /\ pc \in {"act_done", "raised"}

\* C1: _act is total.  Whenever a call of _act has ended it has returned a
\* str (no exception left it), and if validation or execution raised, the
\* str is "Error executing code: " followed by the exception's message.
C1_ActTotal ==
  ActEnded =>
    /\ pc = "act_done"
    /\ raised = NoExc
    /\ exc # NoExc => ret = <<ErrorPrefix>> \o exc.msg

\* C2: standard output is restored on every exit path of _act.  Outside the
\* body of _act sys.stdout is never the capture buffer, and when a call has
\* ended (returned, or left by an exception) sys.stdout is the stream that
\* was installed when the call began.
C2_StdoutRestored ==
  /\ pc \notin {"act_parse", "act_exec", "act_except", "act_finally"} => stdout = "ORIG"
  /\ ActEnded => stdout = old_stdout

\* an exception left _act and the stream is the original one again
C2_Witness ==
  /\ ActEnded
  /\ pc = "raised"
  /\ raised.cls = "BaseException"
  /\ written # <<>>
  /\ stdout = "ORIG"

\* C3: for a fragment with a syntax error (one that does not parse, or does
\* not compile), _act returns a str that starts with "Error executing code: "
\* and local_vars is what it was when the call began.
C3_SyntaxErrorContained ==
  (ActEnded /\ (ParseError(act_code) \/ CompileError(act_code))) =>
    /\ pc = "act_done"
    /\ Len(ret) >= 1
    /\ ret[1] = ErrorPrefix
    /\ local_vars[self] = scope0

\* the fragment assigns x and then fails to parse; x was bound before the
\* call by an earlier fragment, and its value is untouched
C3_Witness ==
  /\ ActEnded
  /\ act_code = <<S_ASSIGN, NL, S_UNCLOSED>>
  /\ ret = <<ErrorPrefix, M_SYNTAX>>
  /\ "x" \in DOMAIN scope0
  /\ scope0["x"] = 2
  /\ local_vars[self] = scope0

\* C4: when the thought holds the final-answer marker, run has appended
\* exactly one FINAL_ANSWER step, whose content is the thought, has returned
\* the thought, and makes no further model call: the call that produced the
\* thought was the last one.
C4_FinalAnswer ==
  (pc = "returned" /\ Contains(thought, FINAL_MARK)) =>
    /\ result = thought
    /\ Len(history[self]) >= 1
    /\ Last(history[self]) = ReActStep(FINAL_ANSWER, thought)
    /\ Cardinality(StepsOfType(history[self], FINAL_ANSWER)) = 1
    /\ calls = i + 1
    /\ ~ENABLED Reason
    /\ ~ENABLED ModelFails

\* the final answer comes in the second iteration, after a thought
C4_Witness ==
  /\ pc = "returned"
  /\ thought = <<FINAL_MARK, T_THINK>>
  /\ result = thought
  /\ calls = 2
  /\ Len(history[self]) = 2

\* C5: with a model that never emits the final-answer marker (and whose
\* calls all return), a run that has ended has made exactly max_steps model
\* calls and has returned "Maximum steps reached without finding solution".
C5_BudgetExhausted ==
  (caller = "run" /\ pc \in {"returned", "raised"} /\ ~final_emitted /\ llm_failures = 0) =>
    /\ pc = "returned"
    /\ calls = max_steps[self]
    /\ i = max_steps[self]
    /\ result = MaxStepsMsg

\* C6: final-answer detection comes before acting and reads the text before
\* ACTION_MARK only.  If that text holds FINAL_MARK the iteration ends the
\* run with one FINAL_ANSWER step, no _act call and the scope untouched; if
\* FINAL_MARK comes only after ACTION_MARK the iteration does not end the
\* run: the thought and the action are recorded and _act is called on the code.
C6_Precedence ==
  [][/\ pc = "decide" =>
          /\ Contains(PreAction(response), FINAL_MARK) =>
               /\ pc' = "returned"
               /\ history'[self] = Append(history[self], ReActStep(FINAL_ANSWER, thought))
               /\ acts' = acts
               /\ local_vars' = local_vars
          /\ (/\ Contains(response, ACTION_MARK)
              /\ ~Contains(PreAction(response), FINAL_MARK)
              /\ Contains(PostAction(response), FINAL_MARK)) =>
               /\ pc' = "record"
               /\ history'[self] = Append(history[self], ReActStep(THOUGHT, thought))
     /\ pc = "record" =>
          /\ ~Contains(PreAction(response), FINAL_MARK)
          /\ pc' = "act_setup"
          /\ act_code' = code
          /\ acts' = acts + 1
          /\ StepsOfType(history'[self], FINAL_ANSWER) = {}
          /\ history'[self] = Append(history[self], ReActStep(ACT_STEP, code))]_vars

\* both markers, the final answer first: the run has ended without acting
C6_Witness ==
  /\ pc = "returned"
  /\ response = <<FINAL_MARK, ACTION_MARK, S_ASSIGN>>
  /\ acts = 0
  /\ local_vars[self] = EmptyDict
  /\ StepsOfType(history[self], ACT_STEP) = {}

\* C7: a name bound by one _act call is readable and mutable in every later
\* _act call on the same agent, and is not visible to a call on another
\* agent.  A fragment that reads x, at its top level (print(x)) or in a
\* function body (print((lambda: x)())), writes the value if an earlier
\* fragment of this agent bound x and fails with NameError if none did;
\* x += 1 adds one to the value in the first case and fails with NameError
\* in the second.
C7_ScopePersists ==
  [][(pc = "act_exec" /\ pc' # "act_exec") =>
       LET bound == "x" \in wrote[self]
           held == "x" \in DOMAIN local_vars[self]
       IN /\ act_code \in {<<S_PRINTX>>, <<S_FUNCREAD>>} =>
               IF bound
               THEN /\ held
                    /\ exc' = NoExc
                    /\ ret' = Str(local_vars[self]["x"]) \o <<NL>>
               ELSE exc'.cls = "NameError"
          /\ act_code = <<S_INCR>> =>
               IF bound
               THEN /\ held
                    /\ exc' = NoExc
                    /\ local_vars'[self]["x"] = local_vars[self]["x"] + 1
               ELSE exc'.cls = "NameError"]_vars

\* C8: the response is split at the first ACTION_MARK: the thought is the
\* trimmed text before it and the code the trimmed text after it, all of it;
\* without the marker the thought is the response and the code is None.
C8_SplitAtFirst ==
  pc = "decide" =>
    IF Contains(response, ACTION_MARK)
    THEN thought = Strip(PreAction(response)) /\ code = Strip(PostAction(response))
    ELSE thought = response /\ code = None

\* C9: for a fragment that runs without error, _act returns exactly what
\* the fragment wrote to standard output, untrimmed, and returns "Code
\* executed successfully with no output" exactly when it wrote nothing.
C9_OutputReturned ==
  (ActEnded /\ pc = "act_done" /\ exc = NoExc) =>
    /\ written # <<>> => ret = written
    /\ written = <<>> => ret = NoOutputMsg
    /\ ret = NoOutputMsg <=> written = <<>>

\* the fragment printed the value of x and a line of text
C9_Witness ==
  /\ ActEnded
  /\ pc = "act_done"
  /\ exc = NoExc
  /\ written = <<"1", NL, "hi", NL>>
  /\ ret = written

\* C10: a failure of the model call is not caught.  Once a model call has
\* raised, the run has ended with that exception, the history is the one the
\* iteration's context was built from (no step appended), no _act call was
\* made in the iteration and the failed call was the last model call.
C10_ModelFailurePropagates ==
  llm_failures > 0 =>
    /\ pc = "raised"
    /\ raised = Raised("LLMError", M_LLM)
    /\ context = CurrentContext(history[self])
    /\ acts = Cardinality(StepsOfType(history[self], ACT_STEP))
    /\ llm_failures = 1
    /\ calls = i + 1
    /\ ~ENABLED Reason

\* the model call of the second iteration failed, after an iteration that acted
C10_Witness ==
  /\ pc = "raised"
  /\ llm_failures = 1
  /\ i = 1
  /\ acts = 1
  /\ Len(history[self]) = 3

\* C11: when every model call and every execution of code returns, run ends
\* whatever the completions are, and what it returns is either a final answer,
\* a text that holds the final-answer marker, or the message of the exhausted
\* budget. (A call that does not return leaves the run in "raised".)
C11_Terminates ==
  /\ [](pc = "returned" => (result = MaxStepsMsg \/ Contains(result, FINAL_MARK)))
  /\ [](pc = "returned" /\ Contains(result, FINAL_MARK) =>
          /\ result = thought
          /\ Last(history[self]) = ReActStep(FINAL_ANSWER, result))
  /\ (pc = "loop" ~> (pc = "returned" \/ pc = "raised"))

\* the budget of three iterations was used up, one of them acting
C11_Witness ==
  /\ pc = "returned"
  /\ result = MaxStepsMsg
  /\ calls = MaxSteps
  /\ acts = 1

\* C12: an error in the code never ends the run: what the fragment raised
\* comes back from _act as the error string, is recorded as the observation,
\* and the loop goes on.
C12_ErrorObserved ==
  (caller = "run" /\ exc # NoExc) =>
    /\ raised \in {NoExc, Raised("LLMError", M_LLM)}
    /\ pc = "observe" => ret = ErrorString(exc)
    /\ (pc = "loop" /\ Last(history[self]).type = OBSERVATION) =>
         /\ Last(history[self]).content = ErrorString(exc)
         /\ ENABLED (Reason \/ LoopExit)

\* the block of one step: its kind, a colon, a newline, its text, a newline
C13_Block(step) == <<step.type>> \o <<":">> \o <<NL>> \o step.content \o <<NL>>

\* the blocks of h[k..], in order, an empty line between two of them
RECURSIVE C13_BlocksFrom(_, _)
C13_BlocksFrom(h, k) ==
  IF k > Len(h) THEN <<>>
  ELSE IF k = Len(h) THEN C13_Block(h[k])
  ELSE C13_Block(h[k]) \o <<NL>> \o C13_BlocksFrom(h, k + 1)

\* C13: the rendering of the history is one block for each step, in the order
\* of insertion, each block the kind of the step, a colon, a newline, the text
\* and a newline, with an empty line between two blocks; it depends on the
\* history only, and it leaves the history as it was.
C13_Rendering ==
  pc = "decide" =>
    /\ context = Prompt \o <<NL, NL>> \o C13_BlocksFrom(history[self], 1)
    /\ Len(context) = Len(Prompt) + 2 + Len(FormatHistory(history[self]))

\* the context of the second model call, after an iteration that acted
C13_Witness ==
  /\ pc = "decide"
  /\ calls = 2
  /\ context = Prompt \o
       <<NL, NL, THOUGHT, ":", NL, T_THINK, NL, NL, ACT_STEP, ":", NL, S_ASSIGN, NL,
         NL, OBSERVATION, ":", NL>> \o NoOutputMsg \o <<NL>>

\* C14: in _act the code is parsed before anything else is done, the capture
\* of the output included: sys.stdout is not redirected until the code has
\* parsed, and for a fragment with a syntax error it is never redirected.
C14_ParseBeforeCapture ==
  /\ pc = "act_parse" => stdout = old_stdout
  /\ (pc \in {"act_parse", "act_except", "act_finally"} /\ ParseError(act_code)) =>
       stdout # "BUF"

\* C15: an iteration makes one model call and uses one unit of the budget,
\* whether it runs code or not: at any moment the model calls of the run are
\* at most max_steps, and the calls of _act at most the model calls.
C15_Budget ==
  /\ calls <= max_steps[self]
  /\ acts <= calls
  /\ pc = "loop" => calls = i
  /\ pc \in {"decide", "record", "act_setup", "act_parse", "act_exec", "act_except",
             "act_finally", "observe"} => calls = i + 1
  /\ (pc = "returned" /\ result = MaxStepsMsg) => (calls = max_steps[self] /\ i = calls)

\* a whole budget in which two iterations acted and one did not
C15_Witness ==
  /\ pc = "returned"
  /\ calls = MaxSteps
  /\ i = MaxSteps
  /\ acts = 2

\* C16: the history only grows, and at its end: a step of the program leaves
\* the history of an agent as it was or appends one step to it, so that the
\* history before the step is a prefix of the history after it.
C16_AppendOnly ==
  [][\A a \in Agents :
       \/ history'[a] = history[a]
       \/ /\ Len(history'[a]) = Len(history[a]) + 1
          /\ SubSeq(history'[a], 1, Len(history[a])) = history[a]]_vars

\* the observation of the second iteration is about to be appended to the
\* five steps already there
C16_Witness ==
  /\ pc = "observe"
  /\ i = 1
  /\ Len(history[self]) = 5

\* C17: the scope is never reset or replaced in a run: the only step of the
\* loop that changes local_vars is the execution of a fragment, and it changes
\* the scope of the running agent only.
C17_ScopeFrame ==
  [][local_vars' # local_vars =>
       /\ pc = "act_exec"
       /\ \A a \in Agents \ {self} : local_vars'[a] = local_vars[a]]_vars

\* the third model call has been made and x, bound by the first fragment and
\* updated by the second, is still in the scope
C17_Witness ==
  /\ pc = "decide"
  /\ calls = 3
  /\ acts = 2
  /\ "x" \in DOMAIN local_vars[self]
  /\ local_vars[self]["x"] = 2

C18_WellFormed(h, n) ==
  /\ \A k \in DOMAIN h :
       /\ h[k].type = OBSERVATION => (k > 1 /\ h[k - 1].type = ACT_STEP)
       /\ h[k].type = ACT_STEP =>
            /\ k > 1 /\ h[k - 1].type = THOUGHT
            /\ k < Len(h) /\ h[k + 1].type = OBSERVATION
       /\ h[k].type = FINAL_ANSWER => k = Len(h)
  /\ Cardinality(StepsOfType(h, FINAL_ANSWER)) <= 1
  /\ Len(h) <= 3 * n

\* C18: in the first run of a fresh agent the history is well formed between
\* two iterations (and when run has returned): an OBSERVATION comes right
\* after an ACTION, an ACTION right after a THOUGHT and right before an
\* OBSERVATION, there is at most one FINAL_ANSWER and it is the last step, and
\* the history has at most 3 * max_steps steps.
C18_HistoryShape ==
  pc \in {"loop", "returned"} => C18_WellFormed(history[self], max_steps[self])

\* every iteration of the budget acted: the history is at its longest
C18_Witness ==
  /\ pc = "loop"
  /\ max_steps[self] = MaxSteps
  /\ Len(history[self]) = 3 * MaxSteps

\* C19: the history and the scope are made by the constructor only, and run
\* does not reset them: a run called again on the same agent starts with the
\* history and the scope the earlier run left and with the whole budget; the
\* context of its first model call holds every step of the earlier run, and
\* its code reads the variables of the earlier run.
C19_RunKeepsState ==
  [][/\ (pc \in {"returned", "raised"} /\ pc' = "loop") =>
          /\ self' = self
          /\ history' = history
          /\ local_vars' = local_vars
          /\ max_steps' = max_steps
          /\ i' = 0
          /\ calls' = 0
     /\ (runs >= 2 /\ pc = "loop" /\ calls = 0 /\ pc' = "decide") =>
          /\ history' = history
          /\ context' = Prompt \o <<NL, NL>> \o C13_BlocksFrom(history[self], 1)
          /\ \A k \in DOMAIN history[self] :
               /\ Contains(context', history[self][k].type)
               /\ \A j \in DOMAIN history[self][k].content :
                    Contains(context', history[self][k].content[j])
     /\ (runs >= 2 /\ pc = "act_exec" /\ "x" \in wrote[self]
           /\ act_code = <<S_INCR, NL, S_PRINTX>>) =>
          /\ exc' = NoExc
          /\ ret' = Str(local_vars[self]["x"] + 1) \o <<NL>>]_vars

\* third run on the agent: the first run bound x, the second gave a final
\* answer, and the fragment of the third has read and updated x
C19_Witness ==
  /\ runs = 3
  /\ pc = "observe"
  /\ calls = 1
  /\ Contains(context, FINAL_ANSWER)
  /\ Contains(context, S_ASSIGN)
  /\ ret = Str(2) \o <<NL>>

\* C20: a failure at run time is not rolled back: when a fragment that parses
\* binds variables or writes output and then raises, the bindings made before
\* the failure stay in the scope for the later calls, the output written
\* before it is dropped, and what _act returns is the error string only.
C20_NoRollback ==
  /\ \A a \in Agents : wrote[a] \subseteq DOMAIN local_vars[a]
  /\ (/\ caller = "direct"
      /\ pc \in {"act_except", "act_finally", "act_done", "raised"}
      /\ exc # NoExc
      /\ ~ParseError(act_code) /\ ~CompileError(act_code)) =>
       /\ DOMAIN scope0 \subseteq DOMAIN local_vars[self]
       /\ act_code[1] = S_ASSIGN =>
            /\ "x" \in DOMAIN local_vars[self]
            /\ Len(act_code) = 3 => local_vars[self]["x"] = 1
            /\ act_code = <<S_ASSIGN, NL, S_INCR, NL, S_RAISE>> =>
                 local_vars[self]["x"] = 2
       /\ (act_code[1] = S_INCR /\ "x" \in DOMAIN scope0) =>
            /\ "x" \in DOMAIN local_vars[self]
            /\ Len(act_code) = 3 => local_vars[self]["x"] = scope0["x"] + 1
       /\ act_code[1] = S_PRINTHI => (written # <<>> /\ written[1] = "hi")
       /\ pc = "act_done" =>
            /\ ret = <<ErrorPrefix>> \o exc.msg
            /\ ~Contains(ret, "hi")

\* x = 1 and then raise ValueError('boom'), on an empty scope
C20_Witness ==
  /\ caller = "direct"
  /\ pc = "act_done"
  /\ act_code = <<S_ASSIGN, NL, S_RAISE>>
  /\ scope0 = EmptyDict
  /\ local_vars[self]["x"] = 1
  /\ ret = <<ErrorPrefix, "boom">>

====
